---------------------------- MODULE Spec2Model ----------------------------
(***************************************************************************)
(* block-sleep: a command-line tool that holds a GNOME session-manager     *)
(* sleep inhibitor for a duration, until watched processes exit, or        *)
(* indefinitely.  The model follows src/src/main.rs and src/src/gnome.rs:  *)
(* the foreground thread (main, run, the block_sleep functions), the timer  *)
(* thread spawned by the pid modes, the rendezvous channel between them,   *)
(* the inhibitor guard, and the operating system's process table that the  *)
(* liveness probe reads.                                                   *)
(***************************************************************************)
EXTENDS Integers, Sequences, FiniteSets, TLC

\* ------------------------------------------------------------------ bounds
\* Longest pid list given to -f / -a.
MaxPids == 2
\* Largest -t duration, in seconds.
MaxTime == 2

\* The interval of the wait loops' thread::sleep(Duration::from_secs(1)).
PollSecs == 1

\* The process ids the command line may name.
Pids == {1, 2}

\* Option<T> is a sequence of length 0 (None) or 1 (Some(x)).
None == <<>>
Some(x) == <<x>>
IsSome(o) == Len(o) = 1
Unwrap(o) == o[1]

PidVecs == UNION {[1..n -> Pids] : n \in 1..MaxPids}

\* struct Args, with clap's group "pid group" making -p, -f, -a exclusive.
ArgsSet ==
    LET times == {None} \cup {Some(t) : t \in 0..MaxTime}
        base(t) == [pid |-> None, pid_first |-> None, pid_all |-> None, time |-> t]
    IN  UNION {
          {base(t)} \cup
          {[base(t) EXCEPT !.pid = Some(p)] : p \in Pids} \cup
          {[base(t) EXCEPT !.pid_first = Some(v)] : v \in PidVecs} \cup
          {[base(t) EXCEPT !.pid_all = Some(v)] : v \in PidVecs}
          : t \in times }

VARIABLES
    cmdline,     \* the raw value of -t on the command line, None once parsed
                 \* or when -t is absent
    args,        \* the parsed command line
    procs,       \* OS process table: pid -> "none" | "own" | "other"
    backend,     \* result of Backend::from_system, "Unset" before
    pc,          \* position of the foreground thread
    idx,         \* index of the pid a for-loop / iterator is at
    mainSleep,   \* seconds left of the foreground thread's thread::sleep
    timer,       \* timer thread: "none" | "sleeping" | "sending" | "done" | "killed"
    timerSleep,  \* seconds left of the timer thread's thread::sleep(t)
    receiver,    \* the channel's receiver: "none" | "alive" | "dropped"
    leaseHeld,   \* a GnomeInhibitGuard (its DBus connection) is alive
    acquires,    \* successful inhibit_sleep calls
    releases,    \* drops of the GnomeInhibitGuard
    outcome,     \* wait loop: "None" | "Waiting" | "Satisfied" | "TimedOut"
    result,      \* what run returned: "none" | "Ok" | "Err" | "Panic"
    errKind,     \* which error: "none" | "backend" | "nosuchprocess" | "lease"
    stdout,      \* set of the kinds of lines printed to stdout
    warnings,    \* "warn:" lines printed by the entry check of -a
    stderrMsgs,  \* "error:" lines printed by main
    exitCode,    \* process exit code, -1 while running
    sends,       \* notifications handed over by the timer thread
    tick,        \* the current loop iteration: receives done, their result,
                 \* and the is_running answers obtained in it
    reuse        \* history of the watched pids since the loop last went to
                 \* sleep: pid -> "same" | "gone" | "reused"

vars == <<cmdline, args, procs, backend, pc, idx, mainSleep, timer, timerSleep,
          receiver, leaseHeld, acquires, releases, outcome, result, errKind,
          stdout, warnings, stderrMsgs, exitCode, sends, tick, reuse>>


\* ------------------------------------------------------- pure functions

\* What the host looks like to Backend::from_system.
OsSet == {"linux", "macos", "other"}
Pid1Set == {"systemd", "init", "absent"}
XdgSet == {"unset", "GNOME", "KDE"}
SessionSet == {"unset", "gnome", "plasma"}

\* Backend::from_system: Ok(backend) or Err.
FromSystem(os, pid1, xdg, session) ==
    IF os = "macos" THEN [ok |-> TRUE, backend |-> "MacOS"]
    ELSE IF os = "linux" THEN
        IF pid1 # "systemd" THEN [ok |-> FALSE, backend |-> "Unset"]
        ELSE IF xdg = "unset" /\ session = "unset"
                THEN [ok |-> TRUE, backend |-> "SystemdInhibit"]
        ELSE IF xdg # "unset" /\ session # "unset"
                THEN [ok |-> TRUE, backend |->
                        IF xdg = "GNOME" \/ session = "gnome"
                        THEN "Gnome" ELSE "SystemdInhibit"]
        ELSE IF xdg = "unset"
                THEN [ok |-> TRUE, backend |->
                        IF session = "gnome" THEN "Gnome" ELSE "SystemdInhibit"]
        ELSE [ok |-> TRUE, backend |->
                        IF xdg = "GNOME" THEN "Gnome" ELSE "SystemdInhibit"]
    ELSE [ok |-> FALSE, backend |-> "Unset"]

\* libc::kill(pid, 0) against the process table: the return value and errno.
\* "own": a process the caller may signal; "other": one it may not.
Kill(table, p) ==
    CASE table[p] = "own"   -> [ret |-> 0,  errno |-> "none"]
      [] table[p] = "other" -> [ret |-> -1, errno |-> "EPERM"]
      [] OTHER              -> [ret |-> -1, errno |-> "ESRCH"]

\* IsRunningIn as the bare "probe succeeded" test.
IsRunningProbeOk(table, p) == Kill(table, p).ret = 0

\* <Pid as IsRunning>::is_running, evaluated against a process table.
IsRunningIn(table, p) ==
    LET k == Kill(table, p)
    IN  ~(k.ret # 0 /\ k.errno # "EPERM")

IsRunning(p) == IsRunningIn(procs, p)

\* The branch of run's if-chain that the arguments select.
Mode ==
    IF IsSome(args.pid) THEN "pid"
    ELSE IF IsSome(args.pid_first) THEN "first"
    ELSE IF IsSome(args.pid_all) THEN "all"
    ELSE IF IsSome(args.time) THEN "time"
    ELSE "indefinite"

\* The pids handed to the selected function (pid / pids parameter).
WatchedPids ==
    CASE Mode = "pid"   -> <<Unwrap(args.pid)>>
      [] Mode = "first" -> Unwrap(args.pid_first)
      [] Mode = "all"   -> Unwrap(args.pid_all)
      [] OTHER          -> <<>>

PidModes == {"pid", "first", "all"}

NewTick == [recvs |-> 0, recvOk |-> FALSE, answers |-> <<>>]

\* ---------------------------------------------------------- parse_duration

\* Longest -t value, in characters.
MaxLen == 3

\* The characters a -t value is made of.
Chars == {"0", "1", "5", "-", ".", "s", "m", "h", "d", "x", "n", "a"}
Digits == {"0", "1", "5"}
TimeStrings == UNION {[1..n -> Chars] : n \in 0..MaxLen}

DigitVal(c) == CASE c = "0" -> 0 [] c = "1" -> 1 [] OTHER -> 5

RECURSIVE Pow10(_)
Pow10(n) == IF n = 0 THEN 1 ELSE 10 * Pow10(n - 1)

\* The digits of a numeral, the decimal point left out, as a natural number.
RECURSIVE MantissaOf(_)
MantissaOf(s) ==
    IF s = <<>> THEN 0
    ELSE LET c == s[Len(s)]
             rest == SubSeq(s, 1, Len(s) - 1)
         IN  IF c = "." THEN MantissaOf(rest)
             ELSE 10 * MantissaOf(rest) + DigitVal(c)

\* str::parse::<f64> on the characters above: an optional sign, then "nan"
\* or digits with at most one point and at least one digit.  A finite value
\* is (-1)^neg * mant / scale.
ParseF64(s) ==
    LET neg == s # <<>> /\ s[1] = "-"
        body == IF neg THEN Tail(s) ELSE s
        points == {i \in 1..Len(body) : body[i] = "."}
        digits == {i \in 1..Len(body) : body[i] \in Digits}
    IN  IF body = <<"n", "a", "n">>
        THEN [ok |-> TRUE, nan |-> TRUE, neg |-> neg, mant |-> 0, scale |-> 1]
        ELSE IF /\ digits # {}
                /\ Cardinality(points) <= 1
                /\ Cardinality(points) + Cardinality(digits) = Len(body)
        THEN [ok |-> TRUE, nan |-> FALSE, neg |-> neg,
              mant |-> MantissaOf(body),
              scale |-> IF points = {} THEN 1
                        ELSE Pow10(Len(body) - (CHOOSE i \in points : TRUE))]
        ELSE [ok |-> FALSE, nan |-> FALSE, neg |-> FALSE, mant |-> 0, scale |-> 1]

\* UnitOfLast with the hour taken for 60 seconds.
UnitOfLastShortHour(c) ==
    CASE c = "d" -> [secs |-> 24 * 60 * 60, strip |-> TRUE]
      [] c = "h" -> [secs |-> 60, strip |-> TRUE]
      [] c = "m" -> [secs |-> 60, strip |-> TRUE]
      [] c = "s" -> [secs |-> 1, strip |-> TRUE]
      [] OTHER   -> [secs |-> 1, strip |-> FALSE]

\* The match on s.chars().last(): seconds in the unit, and whether the last
\* character is stripped.
UnitOfLast(c) ==
    CASE c = "d" -> [secs |-> 24 * 60 * 60, strip |-> TRUE]
      [] c = "h" -> [secs |-> 60 * 60, strip |-> TRUE]
      [] c = "m" -> [secs |-> 60, strip |-> TRUE]
      [] c = "s" -> [secs |-> 1, strip |-> TRUE]
      [] OTHER   -> [secs |-> 1, strip |-> FALSE]

\* ParseDuration without the `secs < 0.0` test: a negative value reaches
\* Duration::from_secs_f64, which panics on it.
ParseDurationNoSignTest(s) ==
    IF s = <<>> THEN [kind |-> "Err", msg |-> "empty", num |-> 0, den |-> 1]
    ELSE
      LET c == s[Len(s)]
          strip == c \in {"d", "h", "m", "s"}
          secs == CASE c = "d" -> 86400 [] c = "h" -> 3600 [] c = "m" -> 60 [] OTHER -> 1
          f == ParseF64(IF strip THEN SubSeq(s, 1, Len(s) - 1) ELSE s)
      IN  IF ~f.ok
          THEN [kind |-> "Err", msg |-> "invalid", num |-> 0, den |-> 1]
          ELSE IF f.nan \/ (f.neg /\ f.mant > 0)
          THEN [kind |-> "Panic", msg |-> "none", num |-> 0, den |-> 1]
          ELSE [kind |-> "Ok", msg |-> "none", num |-> f.mant * secs, den |-> f.scale]

\* parse_duration: Ok(duration of num / den seconds), Err(message), or the
\* panic of Duration::from_secs_f64 on a value that is not finite.
ParseDuration(s) ==
    IF s = <<>> THEN [kind |-> "Err", msg |-> "empty", num |-> 0, den |-> 1]
    ELSE
      LET u == UnitOfLast(s[Len(s)])
          f == ParseF64(IF u.strip THEN SubSeq(s, 1, Len(s) - 1) ELSE s)
      IN  IF ~f.ok
          THEN [kind |-> "Err", msg |-> "invalid", num |-> 0, den |-> 1]
          ELSE IF ~f.nan /\ f.neg /\ f.mant * u.secs > 0
          THEN [kind |-> "Err", msg |-> "negative", num |-> 0, den |-> 1]
          ELSE IF f.nan
          THEN [kind |-> "Panic", msg |-> "none", num |-> 0, den |-> 1]
          ELSE [kind |-> "Ok", msg |-> "none", num |-> f.mant * u.secs, den |-> f.scale]

\* No pid has changed hands since the loop last went to sleep.
NoReuse == [p \in Pids |-> "same"]

\* The loop is between the end of one poll and the end of the next.
BetweenPolls == pc \in {"sleeping", "recv", "check"}

\* p is a pid the loop polls, and the loop is between two polls.
Polled(p) == BetweenPolls /\ \E i \in 1..Len(WatchedPids) : WatchedPids[i] = p

\* ------------------------------------------------------------------ Init
\* The state when main calls run(Args::parse()).
Init ==
    /\ cmdline = None
    /\ args \in ArgsSet
    /\ procs \in [Pids -> {"none", "own", "other"}]
    /\ backend = "Unset"
    /\ pc = "run"
    /\ idx = 1
    /\ mainSleep = 0
    /\ timer = "none"
    /\ timerSleep = 0
    /\ receiver = "none"
    /\ leaseHeld = FALSE
    /\ acquires = 0
    /\ releases = 0
    /\ outcome = "None"
    /\ result = "none"
    /\ errKind = "none"
    /\ stdout = {}
    /\ warnings = 0
    /\ stderrMsgs = 0
    /\ exitCode = -1
    /\ sends = 0
    /\ tick = NewTick
    /\ reuse = NoReuse

\* ------------------------------------------------- the foreground thread

\* run: Backend::from_system()?, then the if-chain over the arguments.
RunFromSystem ==
    /\ pc = "run"
    /\ \E os \in OsSet, pid1 \in Pid1Set, xdg \in XdgSet, session \in SessionSet :
         LET r == FromSystem(os, pid1, xdg, session)
         IN  IF r.ok
             THEN /\ backend' = r.backend
                  /\ pc' = IF Mode \in PidModes THEN "entry" ELSE "match"
                  /\ UNCHANGED <<result, errKind>>
             ELSE /\ backend' = backend
                  /\ pc' = "returned"
                  /\ result' = "Err"
                  /\ errKind' = "backend"
    /\ UNCHANGED <<reuse, cmdline, args, procs, idx, mainSleep, timer, timerSleep, receiver,
                   leaseHeld, acquires, releases, outcome, stdout, warnings,
                   stderrMsgs, exitCode, sends, tick>>

\* block_sleep_on_pid: if !pid.is_running() { return Err(..) }
EntryCheckPid ==
    /\ pc = "entry"
    /\ Mode = "pid"
    /\ LET r == IsRunning(WatchedPids[1])
       IN  /\ tick' = [tick EXCEPT !.answers = Append(@, r)]
           /\ IF r
              THEN /\ pc' = "match"
                   /\ UNCHANGED <<result, errKind>>
              ELSE /\ pc' = "returned"
                   /\ result' = "Err"
                   /\ errKind' = "nosuchprocess"
    /\ UNCHANGED <<reuse, cmdline, args, procs, backend, idx, mainSleep, timer, timerSleep,
                   receiver, leaseHeld, acquires, releases, outcome, stdout,
                   warnings, stderrMsgs, exitCode, sends>>

\* EntryCheckFirst that only warns, as the entry check of -a does.
EntryCheckFirstWarns ==
    /\ pc = "entry"
    /\ Mode = "first"
    /\ LET r == IsRunning(WatchedPids[idx])
       IN  /\ tick' = [tick EXCEPT !.answers = Append(@, r)]
           /\ IF ~r
              THEN warnings' = warnings + 1 /\ stdout' = stdout \cup {"warn"}
              ELSE UNCHANGED <<warnings, stdout>>
           /\ IF idx < Len(WatchedPids)
              THEN idx' = idx + 1 /\ pc' = pc
              ELSE idx' = 1 /\ pc' = "match"
    /\ UNCHANGED <<reuse, cmdline, args, procs, backend, mainSleep, timer, timerSleep,
                   receiver, leaseHeld, acquires, releases, outcome, result,
                   errKind, stderrMsgs, exitCode, sends>>

\* block_sleep_on_first_pid: for pid in pids { if !pid.is_running() { return Err(..) } }
EntryCheckFirst ==
    /\ pc = "entry"
    /\ Mode = "first"
    /\ LET r == IsRunning(WatchedPids[idx])
       IN  /\ tick' = [tick EXCEPT !.answers = Append(@, r)]
           /\ IF ~r
              THEN /\ pc' = "returned"
                   /\ result' = "Err"
                   /\ errKind' = "nosuchprocess"
                   /\ idx' = idx
              ELSE /\ UNCHANGED <<result, errKind>>
                   /\ IF idx < Len(WatchedPids)
                      THEN idx' = idx + 1 /\ pc' = pc
                      ELSE idx' = 1 /\ pc' = "match"
    /\ UNCHANGED <<reuse, cmdline, args, procs, backend, mainSleep, timer, timerSleep,
                   receiver, leaseHeld, acquires, releases, outcome, stdout,
                   warnings, stderrMsgs, exitCode, sends>>

\* EntryCheckAll that returns the error, as the entry check of -f does.
EntryCheckAllFails ==
    /\ pc = "entry"
    /\ Mode = "all"
    /\ LET r == IsRunning(WatchedPids[idx])
       IN  /\ tick' = [tick EXCEPT !.answers = Append(@, r)]
           /\ IF ~r
              THEN /\ pc' = "returned"
                   /\ result' = "Err"
                   /\ errKind' = "nosuchprocess"
                   /\ idx' = idx
              ELSE /\ UNCHANGED <<result, errKind>>
                   /\ IF idx < Len(WatchedPids)
                      THEN idx' = idx + 1 /\ pc' = pc
                      ELSE idx' = 1 /\ pc' = "match"
    /\ UNCHANGED <<reuse, cmdline, args, procs, backend, mainSleep, timer, timerSleep,
                   receiver, leaseHeld, acquires, releases, outcome, stdout,
                   warnings, stderrMsgs, exitCode, sends>>

\* block_sleep_on_all_pids: for pid in pids { if !pid.is_running() { println!(warn) } }
EntryCheckAll ==
    /\ pc = "entry"
    /\ Mode = "all"
    /\ LET r == IsRunning(WatchedPids[idx])
       IN  /\ tick' = [tick EXCEPT !.answers = Append(@, r)]
           /\ IF ~r
              THEN warnings' = warnings + 1 /\ stdout' = stdout \cup {"warn"}
              ELSE UNCHANGED <<warnings, stdout>>
           /\ IF idx < Len(WatchedPids)
              THEN idx' = idx + 1 /\ pc' = pc
              ELSE idx' = 1 /\ pc' = "match"
    /\ UNCHANGED <<reuse, cmdline, args, procs, backend, mainSleep, timer, timerSleep,
                   receiver, leaseHeld, acquires, releases, outcome, result,
                   errKind, stderrMsgs, exitCode, sends>>

\* match backend { Backend::Gnome => .., _ => unimplemented!() }
MatchBackend ==
    /\ pc = "match"
    /\ IF backend = "Gnome"
       THEN /\ pc' = IF Mode \in PidModes THEN "spawn" ELSE "inhibit"
            /\ UNCHANGED result
       ELSE /\ pc' = "panicked"
            /\ result' = "Panic"
    /\ UNCHANGED <<reuse, cmdline, args, procs, backend, idx, mainSleep, timer, timerSleep,
                   receiver, leaseHeld, acquires, releases, outcome, errKind,
                   stdout, warnings, stderrMsgs, exitCode, sends, tick>>

\* SpawnTimer that spawns unconditionally, with time.unwrap_or_default().
SpawnTimerAlways ==
    /\ pc = "spawn"
    /\ receiver' = "alive"
    /\ timer' = "sleeping"
    /\ timerSleep' = IF IsSome(args.time) THEN Unwrap(args.time) ELSE 0
    /\ pc' = "inhibit"
    /\ UNCHANGED <<reuse, cmdline, args, procs, backend, idx, mainSleep, leaseHeld, acquires,
                   releases, outcome, result, errKind, stdout, warnings,
                   stderrMsgs, exitCode, sends, tick>>

\* let (sender, receiver) = mpsc::sync_channel(0);
\* if let Some(t) = time { thread::spawn(move || { thread::sleep(t); let _ = sender.send(()); }); }
SpawnTimer ==
    /\ pc = "spawn"
    /\ receiver' = "alive"
    /\ IF IsSome(args.time)
       THEN timer' = "sleeping" /\ timerSleep' = Unwrap(args.time)
       ELSE UNCHANGED <<timer, timerSleep>>
    /\ pc' = "inhibit"
    /\ UNCHANGED <<reuse, cmdline, args, procs, backend, idx, mainSleep, leaseHeld, acquires,
                   releases, outcome, result, errKind, stdout, warnings,
                   stderrMsgs, exitCode, sends, tick>>

\* InhibitSleep whose error is discarded (inhibit_sleep().ok()): the run
\* goes on into its wait without an inhibitor.
InhibitSleepIgnoresError ==
    /\ pc = "inhibit"
    /\ \E dbus \in {"ok", "no_session", "call_failed"} :
         /\ leaseHeld' = (dbus = "ok")
         /\ acquires' = IF dbus = "ok" THEN acquires + 1 ELSE acquires
         /\ stdout' = stdout \cup {"blocked"}
         /\ outcome' = "Waiting"
         /\ pc' = CASE Mode \in PidModes -> "recv"
                    [] Mode = "time"     -> "time_sleep"
                    [] OTHER             -> "indef"
         /\ tick' = NewTick
    /\ UNCHANGED <<reuse, cmdline, args, procs, backend, idx, mainSleep, timer, timerSleep,
                   releases, warnings, stderrMsgs, exitCode, sends, result,
                   errKind, receiver>>

\* InhibitSleep whose guard is not bound to a named local (let _ = ...): the
\* guard is dropped at the end of the statement and the wait runs without it.
InhibitSleepDropsAtOnce ==
    /\ pc = "inhibit"
    /\ \E dbus \in {"ok", "no_session", "call_failed"} :
         IF dbus = "ok"
         THEN /\ leaseHeld' = FALSE
              /\ acquires' = acquires + 1
              /\ releases' = releases + 1
              /\ stdout' = stdout \cup {"blocked"}
              /\ outcome' = "Waiting"
              /\ pc' = CASE Mode \in PidModes -> "recv"
                         [] Mode = "time"     -> "time_sleep"
                         [] OTHER             -> "indef"
              /\ tick' = NewTick
              /\ UNCHANGED <<result, errKind, receiver>>
         ELSE /\ result' = "Err"
              /\ errKind' = "lease"
              /\ pc' = "returned"
              /\ receiver' = IF receiver = "alive" THEN "dropped" ELSE receiver
              /\ UNCHANGED <<leaseHeld, acquires, releases, stdout, outcome, tick>>
    /\ UNCHANGED <<reuse, cmdline, args, procs, backend, idx, mainSleep, timer, timerSleep,
                   warnings, stderrMsgs, exitCode, sends>>

\* let _guard = gnome::inhibit_sleep()?; println!("Sleep blocked ...");
\* inhibit_sleep fails when the session bus cannot be reached or the Inhibit
\* call fails; the `?` then returns the error and drops the locals.
InhibitSleep ==
    /\ pc = "inhibit"
    /\ \E dbus \in {"ok", "no_session", "call_failed"} :
         IF dbus = "ok"
         THEN /\ leaseHeld' = TRUE
              /\ acquires' = acquires + 1
              /\ stdout' = stdout \cup {"blocked"}
              /\ outcome' = "Waiting"
              /\ pc' = CASE Mode \in PidModes -> "recv"
                         [] Mode = "time"     -> "time_sleep"
                         [] OTHER             -> "indef"
              /\ tick' = NewTick
              /\ UNCHANGED <<result, errKind, receiver>>
         ELSE /\ result' = "Err"
              /\ errKind' = "lease"
              /\ pc' = "returned"
              /\ receiver' = IF receiver = "alive" THEN "dropped" ELSE receiver
              /\ UNCHANGED <<leaseHeld, acquires, stdout, outcome, tick>>
    /\ UNCHANGED <<reuse, cmdline, args, procs, backend, idx, mainSleep, timer, timerSleep,
                   releases, warnings, stderrMsgs, exitCode, sends>>

\* TryRecv placed after the liveness check: when the exit condition is
\* true the iteration ends as Satisfied before the channel is looked at.
TryRecvAfterCheck ==
    /\ pc = "recv"
    /\ LET gone == CASE Mode = "all" ->
                          \A i \in 1..Len(WatchedPids) : ~IsRunning(WatchedPids[i])
                     [] OTHER ->
                          \E i \in 1..Len(WatchedPids) : ~IsRunning(WatchedPids[i])
           ok == (timer = "sending") /\ ~gone
       IN  /\ tick' = [tick EXCEPT !.recvs = @ + 1, !.recvOk = ok,
                                   !.answers = IF gone THEN <<FALSE>> ELSE @]
           /\ IF gone
              THEN /\ outcome' = "Satisfied"
                   /\ pc' = "drop"
                   /\ idx' = idx
                   /\ UNCHANGED <<timer, sends, stdout>>
              ELSE IF ok
              THEN /\ timer' = "done"
                   /\ sends' = sends + 1
                   /\ stdout' = stdout \cup {"timeout"}
                   /\ outcome' = "TimedOut"
                   /\ pc' = "drop"
                   /\ idx' = idx
              ELSE /\ pc' = "check"
                   /\ idx' = 1
                   /\ UNCHANGED <<timer, sends, stdout, outcome>>
    /\ UNCHANGED <<reuse, cmdline, args, procs, backend, mainSleep, timerSleep, receiver,
                   leaseHeld, acquires, releases, result, errKind, warnings,
                   stderrMsgs, exitCode>>

\* TryRecv without the break: the timeout line is printed and the iteration
\* goes on to the liveness check.
TryRecvNoBreak ==
    /\ pc = "recv"
    /\ LET ok == (timer = "sending")
       IN  /\ tick' = [tick EXCEPT !.recvs = @ + 1, !.recvOk = ok]
           /\ pc' = "check"
           /\ idx' = 1
           /\ outcome' = outcome
           /\ IF ok
              THEN /\ timer' = "done"
                   /\ sends' = sends + 1
                   /\ stdout' = stdout \cup {"timeout"}
              ELSE UNCHANGED <<timer, sends, stdout>>
    /\ UNCHANGED <<reuse, cmdline, args, procs, backend, mainSleep, timerSleep, receiver,
                   leaseHeld, acquires, releases, result, errKind, warnings,
                   stderrMsgs, exitCode>>

\* if receiver.try_recv().is_ok() { println!("Timeout reached ..."); break; }
\* On the capacity-zero channel try_recv succeeds exactly when the timer
\* thread is blocked in send.
TryRecv ==
    /\ pc = "recv"
    /\ LET ok == (timer = "sending")
       IN  /\ tick' = [tick EXCEPT !.recvs = @ + 1, !.recvOk = ok]
           /\ IF ok
              THEN /\ timer' = "done"
                   /\ sends' = sends + 1
                   /\ stdout' = stdout \cup {"timeout"}
                   /\ outcome' = "TimedOut"
                   /\ pc' = "drop"
                   /\ idx' = idx
              ELSE /\ pc' = "check"
                   /\ idx' = 1
                   /\ UNCHANGED <<timer, sends, stdout, outcome>>
    /\ UNCHANGED <<reuse, cmdline, args, procs, backend, mainSleep, timerSleep, receiver,
                   leaseHeld, acquires, releases, result, errKind, warnings,
                   stderrMsgs, exitCode>>

\* CheckPid with the test inverted: if pid.is_running() { break; }
CheckPidInverted ==
    /\ pc = "check"
    /\ Mode = "pid"
    /\ LET r == IsRunning(WatchedPids[1])
       IN  /\ tick' = [tick EXCEPT !.answers = Append(@, r)]
           /\ IF r
              THEN pc' = "drop" /\ outcome' = "Satisfied"
              ELSE pc' = "sleep" /\ outcome' = outcome
    /\ UNCHANGED <<reuse, cmdline, args, procs, backend, idx, mainSleep, timer, timerSleep,
                   receiver, leaseHeld, acquires, releases, result, errKind,
                   stdout, warnings, stderrMsgs, exitCode, sends>>

\* CheckPid with a probe that knows the process rather than the pid (a
\* pidfd, a start-time comparison): a pid that changed hands since the last
\* poll counts as exited.
CheckPidKnowsProcess ==
    /\ pc = "check"
    /\ Mode = "pid"
    /\ LET r == IsRunning(WatchedPids[1]) /\ reuse[WatchedPids[1]] # "reused"
       IN  /\ tick' = [tick EXCEPT !.answers = Append(@, r)]
           /\ IF ~r
              THEN pc' = "drop" /\ outcome' = "Satisfied"
              ELSE pc' = "sleep" /\ outcome' = outcome
    /\ UNCHANGED <<reuse, cmdline, args, procs, backend, idx, mainSleep, timer, timerSleep,
                   receiver, leaseHeld, acquires, releases, result, errKind,
                   stdout, warnings, stderrMsgs, exitCode, sends>>

\* block_sleep_on_pid: if !pid.is_running() { break; }
CheckPid ==
    /\ pc = "check"
    /\ Mode = "pid"
    /\ LET r == IsRunning(WatchedPids[1])
       IN  /\ tick' = [tick EXCEPT !.answers = Append(@, r)]
           /\ IF ~r
              THEN pc' = "drop" /\ outcome' = "Satisfied"
              ELSE pc' = "sleep" /\ outcome' = outcome
    /\ UNCHANGED <<reuse, cmdline, args, procs, backend, idx, mainSleep, timer, timerSleep,
                   receiver, leaseHeld, acquires, releases, result, errKind,
                   stdout, warnings, stderrMsgs, exitCode, sends>>

\* block_sleep_on_first_pid:
\*   for pid in pids { if !pid.is_running() { println!("... exited."); break; } }
\* The break leaves the for loop; the enclosing loop goes on to its sleep.
CheckFirst ==
    /\ pc = "check"
    /\ Mode = "first"
    /\ LET r == IsRunning(WatchedPids[idx])
       IN  /\ tick' = [tick EXCEPT !.answers = Append(@, r)]
           /\ IF ~r
              THEN /\ stdout' = stdout \cup {"exited"}
                   /\ pc' = "sleep"
                   /\ idx' = idx
              ELSE /\ stdout' = stdout
                   /\ IF idx < Len(WatchedPids)
                      THEN idx' = idx + 1 /\ pc' = pc
                      ELSE idx' = idx /\ pc' = "sleep"
    /\ UNCHANGED <<reuse, cmdline, args, procs, backend, mainSleep, timer, timerSleep,
                   receiver, leaseHeld, acquires, releases, outcome, result,
                   errKind, warnings, stderrMsgs, exitCode, sends>>

\* CheckAll with all() for any(): the loop ends at the first pid answered
\* not running.
CheckAllFirstGone ==
    /\ pc = "check"
    /\ Mode = "all"
    /\ LET r == IsRunning(WatchedPids[idx])
       IN  /\ tick' = [tick EXCEPT !.answers = Append(@, r)]
           /\ IF ~r
              THEN idx' = idx /\ pc' = "drop" /\ outcome' = "Satisfied"
              ELSE IF idx < Len(WatchedPids)
                   THEN idx' = idx + 1 /\ pc' = pc /\ outcome' = outcome
                   ELSE idx' = idx /\ pc' = "sleep" /\ outcome' = outcome
    /\ UNCHANGED <<reuse, cmdline, args, procs, backend, mainSleep, timer, timerSleep,
                   receiver, leaseHeld, acquires, releases, result, errKind,
                   stdout, warnings, stderrMsgs, exitCode, sends>>

\* block_sleep_on_all_pids:
\*   let any_running = pids.iter().map(|pid| pid.is_running()).any(|running| running);
\*   if !any_running { break; }
\* any() stops at the first pid that is running.
CheckAll ==
    /\ pc = "check"
    /\ Mode = "all"
    /\ LET r == IsRunning(WatchedPids[idx])
       IN  /\ tick' = [tick EXCEPT !.answers = Append(@, r)]
           /\ IF r
              THEN pc' = "sleep" /\ idx' = idx /\ outcome' = outcome
              ELSE IF idx < Len(WatchedPids)
                   THEN idx' = idx + 1 /\ pc' = pc /\ outcome' = outcome
                   ELSE idx' = idx /\ pc' = "drop" /\ outcome' = "Satisfied"
    /\ UNCHANGED <<reuse, cmdline, args, procs, backend, mainSleep, timer, timerSleep,
                   receiver, leaseHeld, acquires, releases, result, errKind,
                   stdout, warnings, stderrMsgs, exitCode, sends>>

\* thread::sleep(Duration::from_secs(1)) at the end of a loop iteration.
LoopSleep ==
    /\ pc = "sleep"
    /\ mainSleep' = PollSecs
    /\ pc' = "sleeping"
    /\ reuse' = NoReuse
    /\ UNCHANGED <<cmdline, args, procs, backend, idx, timer, timerSleep, receiver,
                   leaseHeld, acquires, releases, outcome, result, errKind,
                   stdout, warnings, stderrMsgs, exitCode, sends, tick>>

\* The sleep returns and the loop starts its next iteration.
LoopWake ==
    /\ pc = "sleeping"
    /\ mainSleep = 0
    /\ pc' = "recv"
    /\ tick' = NewTick
    /\ UNCHANGED <<reuse, cmdline, args, procs, backend, idx, mainSleep, timer, timerSleep,
                   receiver, leaseHeld, acquires, releases, outcome, result,
                   errKind, stdout, warnings, stderrMsgs, exitCode, sends>>

\* block_sleep_for_time: thread::sleep(time);
TimeSleep ==
    /\ pc = "time_sleep"
    /\ mainSleep' = Unwrap(args.time)
    /\ pc' = "time_sleeping"
    /\ UNCHANGED <<reuse, cmdline, args, procs, backend, idx, timer, timerSleep, receiver,
                   leaseHeld, acquires, releases, outcome, result, errKind,
                   stdout, warnings, stderrMsgs, exitCode, sends, tick>>

\* TimeWake that does not wait for the sleep to run out.
TimeWakeEarly ==
    /\ pc = "time_sleeping"
    /\ pc' = "drop"
    /\ outcome' = "TimedOut"
    /\ UNCHANGED <<reuse, cmdline, args, procs, backend, idx, mainSleep, timer, timerSleep,
                   receiver, leaseHeld, acquires, releases, result, errKind,
                   stdout, warnings, stderrMsgs, exitCode, sends, tick>>

\* block_sleep_for_time: thread::sleep(time) returns; end of the arm.
TimeWake ==
    /\ pc = "time_sleeping"
    /\ mainSleep = 0
    /\ pc' = "drop"
    /\ outcome' = "TimedOut"
    /\ UNCHANGED <<reuse, cmdline, args, procs, backend, idx, mainSleep, timer, timerSleep,
                   receiver, leaseHeld, acquires, releases, result, errKind,
                   stdout, warnings, stderrMsgs, exitCode, sends, tick>>

\* block_sleep_indefinitely: loop { thread::sleep(Duration::from_secs(u64::MAX)); }
IndefSleep ==
    /\ pc = "indef"
    /\ pc' = "indef_sleeping"
    /\ UNCHANGED <<reuse, cmdline, args, procs, backend, idx, mainSleep, timer, timerSleep,
                   receiver, leaseHeld, acquires, releases, outcome, result,
                   errKind, stdout, warnings, stderrMsgs, exitCode, sends, tick>>

\* IndefWake without the enclosing loop: the function goes on to its end.
IndefWakeFallsThrough ==
    /\ pc = "indef_sleeping"
    /\ pc' = "drop"
    /\ UNCHANGED <<reuse, cmdline, args, procs, backend, idx, mainSleep, timer, timerSleep,
                   receiver, leaseHeld, acquires, releases, outcome, result,
                   errKind, stdout, warnings, stderrMsgs, exitCode, sends, tick>>

\* Should that sleep ever return, the loop sleeps again.
IndefWake ==
    /\ pc = "indef_sleeping"
    /\ pc' = "indef"
    /\ UNCHANGED <<reuse, cmdline, args, procs, backend, idx, mainSleep, timer, timerSleep,
                   receiver, leaseHeld, acquires, releases, outcome, result,
                   errKind, stdout, warnings, stderrMsgs, exitCode, sends, tick>>

\* DropGuard with the guard leaked (mem::forget): the connection stays open.
DropGuardLeaked ==
    /\ pc = "drop"
    /\ receiver' = IF receiver = "alive" THEN "dropped" ELSE receiver
    /\ result' = "Ok"
    /\ pc' = "returned"
    /\ UNCHANGED <<reuse, cmdline, args, procs, backend, idx, mainSleep, timer, timerSleep,
                   leaseHeld, acquires, releases, outcome, errKind, stdout,
                   warnings, stderrMsgs, exitCode, sends, tick>>

\* End of the Backend::Gnome arm: _guard (and the channel ends) go out of
\* scope, the connection holding the inhibitor closes; then Ok(()).
DropGuard ==
    /\ pc = "drop"
    /\ leaseHeld' = FALSE
    /\ releases' = releases + 1
    /\ receiver' = IF receiver = "alive" THEN "dropped" ELSE receiver
    /\ result' = "Ok"
    /\ pc' = "returned"
    /\ UNCHANGED <<reuse, cmdline, args, procs, backend, idx, mainSleep, timer, timerSleep,
                   acquires, outcome, errKind, stdout, warnings, stderrMsgs,
                   exitCode, sends, tick>>

\* main: if let Err(e) = run(..) { eprintln!("error: ..."); process::exit(1); }
\* The process ends, and its timer thread with it.
MainExit ==
    /\ pc = "returned"
    /\ IF result = "Err"
       THEN stderrMsgs' = stderrMsgs + 1 /\ exitCode' = 1
       ELSE stderrMsgs' = stderrMsgs /\ exitCode' = 0
    /\ timer' = IF timer \in {"sleeping", "sending"} THEN "killed" ELSE timer
    /\ pc' = "exited"
    /\ UNCHANGED <<reuse, cmdline, args, procs, backend, idx, mainSleep, timerSleep, receiver,
                   leaseHeld, acquires, releases, outcome, result, errKind,
                   stdout, warnings, sends, tick>>

\* unimplemented!() panics on the main thread: the process ends with the
\* runtime's panic status.
PanicExit ==
    /\ pc = "panicked"
    /\ exitCode' = 101
    /\ pc' = "exited"
    /\ UNCHANGED <<reuse, cmdline, args, procs, backend, idx, mainSleep, timer, timerSleep,
                   receiver, leaseHeld, acquires, releases, outcome, result,
                   errKind, stdout, warnings, stderrMsgs, sends, tick>>

\* ------------------------------------------------------ the timer thread

\* TimerWake with sender.send(()).unwrap(): the error of a send to a
\* dropped receiver panics the timer thread.
TimerWakeUnwraps ==
    /\ timer = "sleeping"
    /\ timerSleep = 0
    /\ timer' = IF receiver = "dropped" THEN "panicked" ELSE "sending"
    /\ UNCHANGED <<reuse, cmdline, args, procs, backend, pc, idx, mainSleep, timerSleep,
                   receiver, leaseHeld, acquires, releases, outcome, result,
                   errKind, stdout, warnings, stderrMsgs, exitCode, sends, tick>>

\* thread::sleep(t) has returned; sender.send(()) finds the receiver gone
\* (Err, ignored by `let _ =`) or blocks until the receiver takes the value.
TimerWake ==
    /\ timer = "sleeping"
    /\ timerSleep = 0
    /\ timer' = IF receiver = "dropped" THEN "done" ELSE "sending"
    /\ UNCHANGED <<reuse, cmdline, args, procs, backend, pc, idx, mainSleep, timerSleep,
                   receiver, leaseHeld, acquires, releases, outcome, result,
                   errKind, stdout, warnings, stderrMsgs, exitCode, sends, tick>>

\* The receiver is dropped while send is blocked: send returns Err, ignored.
TimerSendDisconnected ==
    /\ timer = "sending"
    /\ receiver = "dropped"
    /\ timer' = "done"
    /\ UNCHANGED <<reuse, cmdline, args, procs, backend, pc, idx, mainSleep, timerSleep,
                   receiver, leaseHeld, acquires, releases, outcome, result,
                   errKind, stdout, warnings, stderrMsgs, exitCode, sends, tick>>

\* ------------------------------------------------------ the environment

\* One second passes for every sleeping thread.
Tick ==
    /\ pc # "exited"
    /\ \/ pc \in {"sleeping", "time_sleeping"} /\ mainSleep > 0
       \/ timer = "sleeping" /\ timerSleep > 0
    /\ mainSleep' = IF mainSleep > 0 THEN mainSleep - 1 ELSE 0
    /\ timerSleep' = IF timerSleep > 0 THEN timerSleep - 1 ELSE 0
    /\ UNCHANGED <<reuse, cmdline, args, procs, backend, pc, idx, timer, receiver, leaseHeld,
                   acquires, releases, outcome, result, errKind, stdout,
                   warnings, stderrMsgs, exitCode, sends, tick>>

\* A process exits. reuse notes that its pid was vacated between two polls.
ProcExit ==
    /\ pc # "exited"
    /\ \E p \in Pids :
         /\ procs[p] # "none"
         /\ procs' = [procs EXCEPT ![p] = "none"]
         /\ reuse' = IF Polled(p) THEN [reuse EXCEPT ![p] = "gone"] ELSE reuse
    /\ UNCHANGED <<cmdline, args, backend, pc, idx, mainSleep, timer, timerSleep,
                   receiver, leaseHeld, acquires, releases, outcome, result,
                   errKind, stdout, warnings, stderrMsgs, exitCode, sends, tick>>

\* A process starts under a free pid (pids are reused). reuse notes that a
\* pid vacated since the last poll has been taken by a new process.
ProcStart ==
    /\ pc # "exited"
    /\ \E p \in Pids, owner \in {"own", "other"} :
         /\ procs[p] = "none"
         /\ procs' = [procs EXCEPT ![p] = owner]
         /\ reuse' = IF Polled(p) /\ reuse[p] = "gone"
                     THEN [reuse EXCEPT ![p] = "reused"]
                     ELSE reuse
    /\ UNCHANGED <<cmdline, args, backend, pc, idx, mainSleep, timer, timerSleep,
                   receiver, leaseHeld, acquires, releases, outcome, result,
                   errKind, stdout, warnings, stderrMsgs, exitCode, sends, tick>>

\* ------------------------------------------------------- specifications
MainThread ==
    \/ RunFromSystem
    \/ EntryCheckPid
    \/ EntryCheckFirst
    \/ EntryCheckAll
    \/ MatchBackend
    \/ SpawnTimer
    \/ InhibitSleep
    \/ TryRecv
    \/ CheckPid
    \/ CheckFirst
    \/ CheckAll
    \/ LoopSleep
    \/ LoopWake
    \/ TimeSleep
    \/ TimeWake
    \/ IndefSleep
    \/ IndefWake
    \/ DropGuard
    \/ MainExit
    \/ PanicExit

TimerThread ==
    \/ TimerWake
    \/ TimerSendDisconnected

Environment ==
    \/ Tick
    \/ ProcExit
    \/ ProcStart

Next == MainThread \/ TimerThread \/ Environment

Spec == Init /\ [][Next]_vars

\* The scheduler runs the foreground thread and the timer thread whenever
\* they can take a step, and time passes for sleeping threads.
FairSpec == Spec /\ WF_vars(MainThread) /\ WF_vars(TimerThread) /\ WF_vars(Tick)

\* ------------------------------------------ parsing of the command line

NoArgs == [pid |-> None, pid_first |-> None, pid_all |-> None, time |-> None]

\* The state when main calls Args::parse() on a command line that gives at
\* most -t.
ParseInit ==
    /\ cmdline \in {None} \cup {Some(s) : s \in TimeStrings}
    /\ args = NoArgs
    /\ procs = [p \in Pids |-> "none"]
    /\ backend = "Unset"
    /\ pc = "parse"
    /\ idx = 1
    /\ mainSleep = 0
    /\ timer = "none"
    /\ timerSleep = 0
    /\ receiver = "none"
    /\ leaseHeld = FALSE
    /\ acquires = 0
    /\ releases = 0
    /\ outcome = "None"
    /\ result = "none"
    /\ errKind = "none"
    /\ stdout = {}
    /\ warnings = 0
    /\ stderrMsgs = 0
    /\ exitCode = -1
    /\ sends = 0
    /\ tick = NewTick
    /\ reuse = NoReuse

\* Args::parse(): clap runs value_parser = parse_duration on the -t value.
\* On Err clap prints its own "error:" message and exits with its usage
\* status, 2; a panic ends the process with the runtime's status, 101.
ClapParse ==
    /\ pc = "parse"
    /\ IF cmdline = None
       THEN /\ pc' = "run"
            /\ UNCHANGED <<args, result, errKind, stderrMsgs, exitCode>>
       ELSE LET r == ParseDuration(Unwrap(cmdline))
            IN  CASE r.kind = "Ok" ->
                       /\ args' = [args EXCEPT !.time = Some([num |-> r.num, den |-> r.den])]
                       /\ pc' = "run"
                       /\ UNCHANGED <<result, errKind, stderrMsgs, exitCode>>
                  [] r.kind = "Err" ->
                       /\ pc' = "exited"
                       /\ errKind' = r.msg
                       /\ stderrMsgs' = stderrMsgs + 1
                       /\ exitCode' = 2
                       /\ UNCHANGED <<args, result>>
                  [] OTHER ->
                       /\ pc' = "exited"
                       /\ result' = "Panic"
                       /\ exitCode' = 101
                       /\ UNCHANGED <<args, errKind, stderrMsgs>>
    /\ UNCHANGED <<reuse, cmdline, procs, backend, idx, mainSleep, timer, timerSleep,
                   receiver, leaseHeld, acquires, releases, outcome, stdout,
                   warnings, sends, tick>>

\* The command line is parsed, and the run goes on up to the acquisition of
\* the inhibitor.
ParseNext ==
    \/ ClapParse
    \/ RunFromSystem
    \/ MatchBackend
    \/ InhibitSleep
    \/ MainExit
    \/ PanicExit

ParseSpec == ParseInit /\ [][ParseNext]_vars

\* ------------------------------------------------------------ properties

InLoop == pc \in {"recv", "check", "sleep", "sleeping"}
Returned == pc \in {"returned", "exited"}
AnyFalse(answers) == \E i \in 1..Len(answers) : ~answers[i]
AllFalse(answers) == \A i \in 1..Len(answers) : ~answers[i]
NumFalse(answers) == Cardinality({i \in 1..Len(answers) : ~answers[i]})
NoDuration == ~IsSome(args.time)

\* C1: in -f mode, a loop iteration in which some watched pid was observed
\* not running (its receive having found no notification) ends the loop as
\* Satisfied: the loop never goes on to sleep after such an observation.
C1_FirstExitsOnObservedExit ==
    (Mode = "first" /\ pc \in {"sleep", "sleeping"}) => ~AnyFalse(tick.answers)

\* C2: the inhibitor is acquired at most once and released at most once, it
\* is held exactly between the acquisition and the release, and once run has
\* returned it is not held and every acquisition has been released.
C2_LeaseReleasedOnce ==
    /\ acquires \in {0, 1}
    /\ releases <= acquires
    /\ leaseHeld <=> (acquires = 1 /\ releases = 0)
    /\ Returned => (~leaseHeld /\ releases = acquires)

C2_Witness ==
    /\ pc = "returned"
    /\ result = "Ok"
    /\ acquires = 1
    /\ releases = 1
    /\ ~leaseHeld

PidGone == Mode = "pid" /\ ~IsRunning(Unwrap(args.pid))

\* C3: in -p mode the step that probes the pid ends the loop as Satisfied
\* exactly when the probe answers not running; and when the loop is running
\* and the pid is gone for good, the run eventually returns Ok with the
\* inhibitor released (under FairSpec), with or without a duration.
C3_PidExitEndsRun ==
    /\ [][(Mode = "pid" /\ pc = "check" /\ pc' # pc) =>
            IF IsRunning(Unwrap(args.pid))
            THEN pc' = "sleep" /\ outcome' = "Waiting"
            ELSE pc' = "drop" /\ outcome' = "Satisfied"]_vars
    /\ []((Mode = "pid" /\ InLoop /\ []PidGone) =>
            <>(Returned /\ result = "Ok" /\ ~leaseHeld /\ releases = 1))

C3_Witness ==
    /\ Mode = "pid"
    /\ outcome = "Satisfied"
    /\ Returned
    /\ result = "Ok"
    /\ ~leaseHeld
    /\ releases = 1
    /\ PidGone

\* C4: in -a mode the loop ends as Satisfied only in an iteration whose
\* receive found no notification and in which every watched pid was probed
\* and answered not running; and it goes on to sleep only after a probe of
\* that iteration answered running.
C4_AllWaitsForEveryPid ==
    Mode = "all" =>
      /\ outcome = "Satisfied" =>
           /\ ~tick.recvOk
           /\ Len(tick.answers) = Len(WatchedPids)
           /\ AllFalse(tick.answers)
      /\ pc \in {"sleep", "sleeping"} =>
           /\ tick.answers # <<>>
           /\ tick.answers[Len(tick.answers)]
           /\ outcome = "Waiting"

\* -a with two different pids, one already gone at entry (one warning), the
\* other seen running at entry and not running later.
C4_Witness ==
    /\ Mode = "all"
    /\ Len(WatchedPids) = 2
    /\ WatchedPids[1] # WatchedPids[2]
    /\ warnings = 1
    /\ outcome = "Satisfied"
    /\ result = "Ok"

\* C5: in -p and -f modes a pid found not running by the entry check makes
\* the run return the "no such process" error in that very step, with no
\* timer thread, no channel, no inhibitor and no loop iteration in that run;
\* the run gets past the entry check only with every pid answered running.
C5_EntryCheckFails ==
    Mode \in {"pid", "first"} =>
      /\ errKind = "nosuchprocess" =>
           /\ Returned
           /\ result = "Err"
           /\ AnyFalse(tick.answers)
           /\ timer = "none"
           /\ receiver = "none"
           /\ acquires = 0
           /\ ~leaseHeld
           /\ outcome = "None"
           /\ tick.recvs = 0
      /\ pc = "entry" => ~AnyFalse(tick.answers)
      /\ pc \in {"match", "spawn", "inhibit"} =>
           /\ Len(tick.answers) = Len(WatchedPids)
           /\ ~AnyFalse(tick.answers)

\* -f with two pids, the second of which is not running at entry.
C5_Witness ==
    /\ Mode = "first"
    /\ errKind = "nosuchprocess"
    /\ tick.answers = <<TRUE, FALSE>>
    /\ pc = "exited"
    /\ exitCode = 1

\* C6: in -a mode the entry check never yields the "no such process" error:
\* it probes every pid, prints one warning per pid answered not running,
\* and goes on to the backend match; the loop then runs with the inhibitor
\* held.
C6_AllEntryOnlyWarns ==
    /\ [](Mode = "all" =>
            /\ errKind # "nosuchprocess"
            /\ pc \in {"match", "spawn", "inhibit"} =>
                 /\ Len(tick.answers) = Len(WatchedPids)
                 /\ warnings = NumFalse(tick.answers)
                 /\ result = "none"
            /\ InLoop => leaseHeld)
    /\ [][(Mode = "all" /\ pc = "entry" /\ pc' # pc) => pc' = "match"]_vars

\* -a with two pids, none of them running at entry, inside the loop.
C6_Witness ==
    /\ Mode = "all"
    /\ Len(WatchedPids) = 2
    /\ warnings = 2
    /\ pc = "check"
    /\ leaseHeld

\* The exit condition of the mode holds of the process table right now.
ExitConditionTrue ==
    CASE Mode = "pid"   -> ~IsRunning(WatchedPids[1])
      [] Mode = "first" -> \E i \in 1..Len(WatchedPids) : ~IsRunning(WatchedPids[i])
      [] Mode = "all"   -> \A i \in 1..Len(WatchedPids) : ~IsRunning(WatchedPids[i])
      [] OTHER          -> FALSE

\* C7: in -p, -f and -a modes, when an iteration starts with the timer's
\* notification pending, it ends the loop as TimedOut and prints the timeout
\* line without probing any pid, also when the exit condition is true; and
\* the terminal outcome is fixed by what the last iteration observed:
\* TimedOut exactly when its receive succeeded.
C7_TimeoutWinsTie ==
    /\ [][(Mode \in PidModes /\ pc = "recv" /\ timer = "sending" /\ pc' # pc) =>
            /\ outcome' = "TimedOut"
            /\ "timeout" \in stdout'
            /\ pc' = "drop"
            /\ tick'.answers = <<>>]_vars
    /\ []((Mode \in PidModes /\ outcome \in {"Satisfied", "TimedOut"}) =>
            /\ (outcome = "TimedOut") <=> tick.recvOk
            /\ (outcome = "Satisfied") <=> (~tick.recvOk /\ tick.answers # <<>>))

\* The loop has just ended as TimedOut while the exit condition is true.
C7_Witness ==
    /\ Mode \in PidModes
    /\ pc = "drop"
    /\ outcome = "TimedOut"
    /\ "timeout" \in stdout
    /\ ExitConditionTrue

\* C8: the timer thread hands over at most one notification; every loop
\* iteration does exactly one try_recv, before anything else; and an
\* iteration whose try_recv succeeded ends the loop as TimedOut with no
\* probe, no sleep and no second receive.
C8_TimeoutOneShot ==
    Mode \in PidModes =>
      /\ sends <= 1
      /\ sends = 1 => timer \in {"done"}
      /\ tick.recvs <= 1
      /\ pc = "recv" => tick.recvs = 0
      /\ pc \in {"check", "sleep", "sleeping"} => (tick.recvs = 1 /\ ~tick.recvOk)
      /\ tick.recvOk =>
           /\ pc \in {"drop", "returned", "exited"}
           /\ outcome = "TimedOut"
           /\ tick.recvs = 1
           /\ tick.answers = <<>>
           /\ sends = 1

C8_Witness ==
    /\ Mode = "first"
    /\ tick.recvOk
    /\ sends = 1
    /\ outcome = "TimedOut"
    /\ pc = "returned"

\* C9: in -p, -f and -a modes without -t no timer thread exists, no receive
\* succeeds and the loop is never TimedOut; once the inhibitor is acquired
\* the loop keeps running unless it ended as Satisfied, on a probe that
\* answered not running.
C9_NoDurationNoTimeout ==
    (Mode \in PidModes /\ NoDuration) =>
      /\ timer = "none"
      /\ sends = 0
      /\ ~tick.recvOk
      /\ outcome # "TimedOut"
      /\ "timeout" \notin stdout
      /\ acquires = 1 => (InLoop \/ outcome = "Satisfied")
      /\ outcome = "Satisfied" =>
           /\ tick.answers # <<>>
           /\ ~tick.answers[Len(tick.answers)]

\* -p without -t ran its loop through at least one sleep.
C9_Witness ==
    /\ Mode = "pid"
    /\ NoDuration
    /\ pc = "sleeping"
    /\ tick.recvs = 1
    /\ leaseHeld

\* C10: with no flags, once the inhibitor is acquired the run stays in its
\* sleep loop with the inhibitor held: it never returns, never releases and
\* the process never exits.
C10_IndefiniteNeverEnds ==
    (Mode = "indefinite" /\ acquires = 1) =>
      /\ leaseHeld
      /\ releases = 0
      /\ pc \in {"indef", "indef_sleeping"}
      /\ result = "none"
      /\ exitCode = -1

C10_Witness ==
    /\ Mode = "indefinite"
    /\ pc = "indef_sleeping"
    /\ leaseHeld

\* C11: with only -t the run probes no process; once the inhibitor is
\* acquired it is held through the sleep, the sleep is left only with the
\* whole duration elapsed (at once for duration 0), and the run then
\* releases the inhibitor and returns Ok; every -t run ends (under FairSpec).
C11_DurationOnly ==
    /\ [](Mode = "time" =>
            /\ tick.answers = <<>>
            /\ tick.recvs = 0
            /\ timer = "none"
            /\ pc \in {"time_sleep", "time_sleeping", "drop"} => leaseHeld
            /\ pc = "time_sleeping" => mainSleep <= Unwrap(args.time)
            /\ (acquires = 1 /\ pc \in {"drop", "returned", "exited"}) =>
                 (mainSleep = 0 /\ outcome = "TimedOut")
            /\ (acquires = 1 /\ Returned) =>
                 (result = "Ok" /\ ~leaseHeld /\ releases = 1))
    /\ [][(Mode = "time" /\ pc = "time_sleeping" /\ pc' # pc) =>
            (mainSleep = 0 /\ pc' = "drop" /\ leaseHeld')]_vars
    /\ []((Mode = "time" /\ leaseHeld) =>
            <>(pc = "exited" /\ result = "Ok" /\ ~leaseHeld /\ exitCode = 0))

\* A -t run of the longest duration has slept it out and returned.
C11_Witness ==
    /\ Mode = "time"
    /\ Unwrap(args.time) = MaxTime
    /\ pc = "exited"
    /\ result = "Ok"
    /\ releases = 1
    /\ ~leaseHeld

\* C12: every run that ends in a fatal failure (an error returned by run,
\* or a backend without an inhibition strategy) has printed exactly one
\* "error:" line and exits with code 1.
C12_FatalFailureExitsOne ==
    (pc = "exited" /\ result \in {"Err", "Panic"}) =>
        (stderrMsgs = 1 /\ exitCode = 1)

TimerAlive == timer \in {"sleeping", "sending"}

\* C13 as stated: in -p, -f and -a modes the timer thread exists only while
\* the inhibitor is held, and a failed acquisition leaves no timer started.
C13_TimerOnlyUnderLease ==
    Mode \in PidModes =>
      /\ TimerAlive => leaseHeld
      /\ errKind = "lease" => timer = "none"

\* C13 amended: in -p, -f and -a modes the inhibitor is acquired before the
\* wait loop starts, so the loop runs only with it held; the timer thread is
\* started, when -t is given, before the acquisition is attempted; a failed
\* acquisition returns the error with no loop iteration, no second attempt
\* and no notification ever received.
C13_LeaseBeforeLoop ==
    Mode \in PidModes =>
      /\ InLoop => (leaseHeld /\ acquires = 1)
      /\ pc \in {"run", "entry", "match", "spawn"} =>
           (timer = "none" /\ receiver = "none" /\ acquires = 0)
      /\ pc = "inhibit" =>
           /\ ~leaseHeld
           /\ acquires = 0
           /\ receiver = "alive"
           /\ IF IsSome(args.time) THEN TimerAlive ELSE timer = "none"
      /\ errKind = "lease" =>
           /\ Returned
           /\ result = "Err"
           /\ acquires = 0
           /\ ~leaseHeld
           /\ outcome = "None"
           /\ tick.recvs = 0
           /\ sends = 0
           /\ receiver = "dropped"

\* The acquisition failed in a run whose timer thread had been started.
C13_Witness ==
    /\ Mode \in PidModes
    /\ IsSome(args.time)
    /\ errKind = "lease"
    /\ pc = "returned"
    /\ timer \in {"sleeping", "sending", "done"}

\* C14: once the receiver is dropped (the loop ended on its process
\* condition, or the function returned early) no step changes the outcome,
\* the result, the inhibitor or the count of notifications; the timer
\* thread's send then ends with the ignored error and the thread is done (or
\* ends with the process): it never panics and never stays blocked in send
\* (under FairSpec).
C14_AbandonedTimerHarmless ==
    /\ [](timer \in {"none", "sleeping", "sending", "done", "killed"})
    /\ [](receiver = "dropped" => (Returned /\ ~leaseHeld))
    /\ [][receiver = "dropped" =>
            /\ outcome' = outcome
            /\ result' = result
            /\ errKind' = errKind
            /\ leaseHeld' = leaseHeld
            /\ acquires' = acquires
            /\ releases' = releases
            /\ sends' = sends
            /\ stdout' = stdout]_vars
    /\ []((TimerAlive /\ receiver = "dropped") => <>(timer \in {"done", "killed"}))

\* The loop ended as Satisfied, and the timer thread's send came afterwards
\* and found the receiver gone.
C14_Witness ==
    /\ outcome = "Satisfied"
    /\ receiver = "dropped"
    /\ timer = "done"
    /\ sends = 0
    /\ result = "Ok"
    /\ ~leaseHeld

\* ------------------------------------------- properties of parse_duration

\* Largest number N the properties spell out, in tenths.
MaxTenths == 155

DigitChar(d) == <<"0", "1", "2", "3", "4", "5", "6", "7", "8", "9">>[d + 1]

\* The decimal numeral of a natural number.
RECURSIVE Numeral(_)
Numeral(n) == IF n < 10 THEN <<DigitChar(n)>>
              ELSE Append(Numeral(n \div 10), DigitChar(n % 10))

\* The ways the number t / 10 is written: "15" or "15.0", "1.5".
Spellings(t) ==
    {Numeral(t \div 10) \o <<".", DigitChar(t % 10)>>}
      \cup (IF t % 10 = 0 THEN {Numeral(t \div 10)} ELSE {})

\* The unit suffixes and the seconds in each; "" is the omitted suffix.
Suffixes == {"", "s", "m", "h", "d"}
SuffixOf(u) == IF u = "" THEN <<>> ELSE <<u>>
UnitSeconds(u) ==
    CASE u = "m" -> 60 [] u = "h" -> 3600 [] u = "d" -> 86400 [] OTHER -> 1

\* Args::parse() has just dealt with a -t value: run is about to be called,
\* or the process ended inside the parser.
JustParsed ==
    /\ cmdline # None
    /\ \/ pc = "run"
       \/ pc = "exited" /\ backend = "Unset" /\ errKind # "backend"

\* C15: a -t value that spells a non-negative number N followed by a unit
\* suffix s, m, h, d, or by none, parses to the duration of N times the
\* unit's seconds (1, 60, 3600, 86400; 1 without suffix).
C15_ParseDurationValue ==
    JustParsed =>
      \A t \in 0..MaxTenths, u \in Suffixes :
        \A n \in Spellings(t) :
          (Unwrap(cmdline) = n \o SuffixOf(u)) =>
             /\ pc = "run"
             /\ IsSome(args.time)
             /\ Unwrap(args.time).num * 10 = t * UnitSeconds(u) * Unwrap(args.time).den

\* "15m" has parsed to 900 seconds.
C15_Witness ==
    /\ pc = "run"
    /\ cmdline = Some(<<"1", "5", "m">>)
    /\ args.time = Some([num |-> 900, den |-> 1])

\* C16: a -t value that spells a negative number, with any suffix or none,
\* and the empty value are rejected with an error, never parsed to a
\* duration and never a panic; a rejected value ends the process before
\* backend detection, with no inhibitor acquired and no timer started.
C16_ParseDurationRejects ==
    /\ JustParsed =>
         /\ \A t \in 1..MaxTenths, u \in Suffixes :
              \A n \in Spellings(t) :
                (Unwrap(cmdline) = <<"-">> \o n \o SuffixOf(u)) =>
                    (pc = "exited" /\ errKind = "negative" /\ result # "Panic")
         /\ Unwrap(cmdline) = <<>> => (pc = "exited" /\ errKind = "empty")
    /\ errKind \in {"negative", "empty", "invalid"} =>
         /\ pc = "exited"
         /\ args.time = None
         /\ backend = "Unset"
         /\ acquires = 0
         /\ ~leaseHeld
         /\ timer = "none"
         /\ result = "none"
         /\ stderrMsgs = 1

\* "-5d" has been rejected as negative.
C16_Witness ==
    /\ cmdline = Some(<<"-", "5", "d">>)
    /\ pc = "exited"
    /\ errKind = "negative"
    /\ args.time = None

\* ------------------------------------------------ properties, continued

\* C17: every is_running answer is true exactly when the signal-0 probe of
\* that pid succeeded or failed with EPERM, and false when it failed
\* otherwise (ESRCH); the probe leaves the process table, the inhibitor, the
\* timer and the channel as they were.
C17_IsRunningAnswer ==
    [][(Len(tick'.answers) = Len(tick.answers) + 1) =>
         LET probe == Kill(procs, WatchedPids[idx])
             answer == tick'.answers[Len(tick'.answers)]
         IN  /\ answer <=> (probe.ret = 0 \/ probe.errno = "EPERM")
             /\ (probe.ret # 0 /\ probe.errno = "ESRCH") => ~answer
             /\ procs' = procs
             /\ leaseHeld' = leaseHeld
             /\ acquires' = acquires
             /\ releases' = releases
             /\ timer' = timer
             /\ receiver' = receiver
             /\ sends' = sends]_vars

\* -p on a process the caller may not signal: the probe failed with EPERM,
\* the answer was running and the loop went on to sleep.
C17_Witness ==
    /\ Mode = "pid"
    /\ pc = "sleep"
    /\ procs[Unwrap(args.pid)] = "other"
    /\ tick.answers = <<TRUE>>

\* C18: in every mode (-p, -f, -a, -t alone, indefinite) the inhibitor is
\* held in every state in which the wait is Waiting: while the loop receives,
\* probes or sleeps, and while the timed or endless sleep runs. It is
\* released only once the wait has ended as Satisfied or TimedOut.
Waiting ==
    pc \in {"recv", "check", "sleep", "sleeping", "time_sleep", "time_sleeping",
            "indef", "indef_sleeping"}
C18_LeaseHeldWhileWaiting ==
    /\ Waiting => (outcome = "Waiting" /\ leaseHeld /\ releases = 0)
    /\ outcome = "Waiting" => (leaseHeld /\ releases = 0)
    /\ releases > 0 => (outcome \in {"Satisfied", "TimedOut"} /\ ~Waiting)

\* The -a loop is asleep between two polls with the inhibitor held.
C18_Witness ==
    /\ Mode = "all" /\ pc = "sleeping" /\ mainSleep = PollSecs
    /\ tick.answers # <<>> /\ leaseHeld /\ outcome = "Waiting"

\* C19: in -p and -a modes the loop ends as Satisfied only in an iteration
\* whose receive found nothing and in which is_running answered false for
\* the watched pid (-p) or for every watched pid (-a). When the process
\* under the -p pid exits and the pid is taken by a new process between two
\* polls, the next poll answers true: no exit is observed and the loop goes
\* on to its sleep, still waiting, on the new process.
C19_SatisfiedOnlyOnObservedAbsence ==
    Mode \in {"pid", "all"} =>
      /\ outcome = "Satisfied" =>
           /\ ~tick.recvOk
           /\ Len(tick.answers) = Len(WatchedPids)
           /\ AllFalse(tick.answers)
      /\ (Mode = "pid" /\ reuse[WatchedPids[1]] = "reused") =>
           /\ outcome # "Satisfied"
           /\ BetweenPolls => procs[WatchedPids[1]] # "none"
           /\ (~BetweenPolls /\ outcome = "Waiting") =>
                (pc = "sleep" /\ tick.answers = <<TRUE>> /\ leaseHeld)

\* The -p pid changed hands since the last poll and the poll that followed
\* answered true: the loop is about to sleep again.
C19_Witness ==
    /\ Mode = "pid" /\ pc = "sleep" /\ outcome = "Waiting"
    /\ reuse[WatchedPids[1]] = "reused" /\ tick.answers = <<TRUE>>

=============================================================================
